---- MODULE Spec2Model ----
(***************************************************************************)
(* StravaTalk, src/stravatalk/app.py: the Streamlit chat interface.        *)
(*                                                                         *)
(* One script run of create_interface initialises the session state,      *)
(* replays chat_history and, when the chat input holds a prompt, runs      *)
(* handle_query.  The state below is st.session_state, the position of    *)
(* the single script thread, the locals of handle_query and what the run  *)
(* has put on the screen.                                                  *)
(*                                                                         *)
(* Python values are written as follows.  A dict is a function from its   *)
(* keys (a key that is missing is outside DOMAIN).  An optional value is  *)
(* a sequence of length <= 1: None is << >>, a value v is <<v>>.  A        *)
(* DataFrame is [columns, rows] with every row a tuple aligned with        *)
(* columns; a record of DataFrame.to_dict("records") is the sequence of    *)
(* its <<column, cell>> items.  Cells are strings.                         *)
(***************************************************************************)
EXTENDS Naturals, Sequences, FiniteSets, TLC

VARIABLES
    keys,               \* the keys present in st.session_state
    is_processing,      \* st.session_state.is_processing
    chat_history,       \* st.session_state.chat_history
    agents_built,       \* number of initialize_agents calls of the session
    pc,                 \* position of the script thread
    turns,              \* number of handle_query calls so far
    result,             \* handle_query: result, None until process_query returns
    is_valid,           \* handle_query: is_valid, None until the validator runs
    coercion,           \* handle_query: how the pd.to_datetime block of the call went
    assistant_message,  \* handle_query: assistant_message, None until it is built
    exc,                \* the exception propagating in handle_query, "none" if none
    raised,             \* the places of this handle_query call that have raised
    screen,             \* what handle_query has put on the page in this run
    replay,             \* what the history replay of this run has shown, per message
    returned            \* how the handle_query call of this run ended

vars == <<keys, is_processing, chat_history, agents_built, pc, turns, result,
          is_valid, coercion, assistant_message, exc, raised, screen, replay,
          returned>>

(***************************************************************************)
(* Bounds of the model.                                                    *)
(***************************************************************************)
MaxTurns == 1

(***************************************************************************)
(* Python values.                                                          *)
(***************************************************************************)
None == << >>

Some(v) == <<v>>

\* bool(v) of an optional dict / string: None is falsy.
Truthy(opt) == opt # None

Range(s) == {s[i] : i \in DOMAIN s}

\* [c for c in s if c in allowed], order preserved.
RECURSIVE FilterSeq(_, _)
FilterSeq(s, allowed) ==
    IF s = << >> THEN << >>
    ELSE IF Head(s) \in allowed
         THEN <<Head(s)>> \o FilterSeq(Tail(s), allowed)
         ELSE FilterSeq(Tail(s), allowed)

(***************************************************************************)
(* Tables (pandas.DataFrame) and their cells.                              *)
(***************************************************************************)
RawDates == {"2024-01-05"}

\* pandas.Timestamp of a parsable cell.
Timestamp(v) == "Timestamp(" \o v \o ")"

TemporalCells == {Timestamp(v) : v \in RawDates}

IsTemporal(v) == v \in TemporalCells

\* DataFrame.empty: an axis of length 0.
Empty(df) == Len(df.columns) = 0 \/ Len(df.rows) = 0

\* s with every later repetition of an element dropped.
RECURSIVE Dedup(_)
Dedup(s) ==
    IF s = << >> THEN << >>
    ELSE <<Head(s)>> \o Dedup(FilterSeq(Tail(s), Range(Tail(s)) \ {Head(s)}))

\* dict(zip(columns, row)): a dict keeps insertion order, so it is the
\* sequence of its <<key, value>> items; a repeated key keeps its first
\* position and its last value.
RowDict(columns, row) ==
    LET ks == Dedup(columns)
        last(c) == CHOOSE i \in DOMAIN columns :
                        /\ columns[i] = c
                        /\ \A j \in DOMAIN columns : columns[j] = c => j <= i
    IN [k \in DOMAIN ks |-> <<ks[k], row[last(ks[k])]>>]

DictKeys(d) == [i \in DOMAIN d |-> d[i][1]]

DictGet(d, key) == d[CHOOSE i \in DOMAIN d : d[i][1] = key][2]

\* DataFrame.to_dict("records"): one dict per row, column name -> cell.
to_dict_records(df) == [i \in DOMAIN df.rows |-> RowDict(df.columns, df.rows[i])]

RECURSIVE AllKeys(_)
AllKeys(records) ==
    IF records = << >> THEN << >>
    ELSE DictKeys(Head(records)) \o AllKeys(Tail(records))

\* pandas.DataFrame(records) for a list of dicts: the columns are the keys
\* in order of first appearance, a key a record lacks gives NaN.
DataFrame(records) ==
    LET cols == Dedup(AllKeys(records))
    IN [columns |-> cols,
        rows    |-> [i \in DOMAIN records |->
                        [k \in DOMAIN cols |->
                            IF cols[k] \in Range(DictKeys(records[i]))
                            THEN DictGet(records[i], cols[k]) ELSE "NaN"]]]

\* df[x]: the cells of column x, top to bottom.
Column(df, x) ==
    LET k == CHOOSE i \in DOMAIN df.columns : df.columns[i] = x
    IN [i \in DOMAIN df.rows |-> df.rows[i][k]]

\* pandas.to_datetime(series): every cell parsed, or ValueError.
to_datetime(cells) ==
    IF \A i \in DOMAIN cells : cells[i] \in RawDates
    THEN [ok |-> TRUE, cells |-> [i \in DOMAIN cells |-> Timestamp(cells[i])]]
    ELSE [ok |-> FALSE, cells |-> cells]

\* df[x] = cells
SetColumn(df, x, cells) ==
    [df EXCEPT !.rows =
        [i \in DOMAIN df.rows |->
            [k \in DOMAIN df.columns |->
                IF df.columns[k] = x THEN cells[i] ELSE df.rows[i][k]]]]

(***************************************************************************)
(* visualization.py (not in src/): the Chart Input Validator and the       *)
(* Visualization Builder, from their contracts.                            *)
(***************************************************************************)
\* validate_chart_inputs(data, x_column, y_columns)
\*   -> (is_valid, valid_y_columns, error_message); never raises.
validate_chart_inputs(data, x_column, y_columns) ==
    IF Empty(data)
    THEN [is_valid |-> FALSE, valid_y_columns |-> << >>,
          error_message |-> "No data available for visualization"]
    ELSE IF x_column \notin Range(data.columns)
    THEN [is_valid |-> FALSE, valid_y_columns |-> << >>,
          error_message |-> "x column not found in data"]
    ELSE LET valid == FilterSeq(y_columns, Range(data.columns))
         IN IF valid = << >>
            THEN [is_valid |-> FALSE, valid_y_columns |-> << >>,
                  error_message |-> "no valid y columns found in data"]
            ELSE [is_valid |-> TRUE, valid_y_columns |-> valid,
                  error_message |-> ""]

SupportedChartTypes == {"line", "bar", "scatter"}

\* create_visualization(data, x_column, y_columns, chart_type) raises
\* UnsupportedChartType for a chart type outside the closed set.
create_visualization_raises(chart_type) == chart_type \notin SupportedChartTypes

(***************************************************************************)
(* What the query pipeline can return (orchestrator.process_query).        *)
(***************************************************************************)
QueryTypes == {"SQL", "VIZ", "CONVERSATIONAL"}

\* classification.query_type in [QueryType.SQL, QueryType.VIZ]
IsDataQuery(query_type) == query_type \in {"SQL", "VIZ"}

SqlQueries == {None, Some("SELECT date, distance FROM activities")}

ResponseTexts == {"Here are your runs."}

UserQueries == {"show my runs over time"}

XColumns == {"Start_Date", "distance", "pace"}

YColumnLists == {<<"distance">>, <<"pace", "distance">>, <<"pace">>}

\* chart_type is an optional key of the directive.
ChartTypeKeys == {None, Some("pie")}

ChartInfos ==
    {[x_column |-> x, y_columns |-> y] @@
        (IF t = None THEN << >> ELSE [chart_type |-> t[1]]) :
        x \in XColumns, y \in YColumnLists, t \in ChartTypeKeys}

Tables ==
    {[columns |-> <<"Start_Date", "distance">>, rows |-> << >>],
     [columns |-> <<"Start_Date", "distance">>, rows |-> <<<<"2024-01-05", "5.2">>>>],
     [columns |-> <<"Start_Date", "distance">>, rows |-> <<<<"n/a", "5.2">>>>]}

\* str.lower(), on the column names of the model.
Lower(name) ==
    CASE name = "Start_Date" -> "start_date"
      [] OTHER -> name

\* "date" in x_column.lower() or "time" in x_column.lower()
IsTimeLike(x_column) == Lower(x_column) \in {"start_date", "date", "time"}

\* The required keys, then each optional key present or missing.
PipelineResults ==
    {[classification |-> [query_type |-> q], success |-> s,
      response_text |-> t, sql_query |-> sql] @@ ci @@ d :
        q \in QueryTypes, s \in BOOLEAN, t \in ResponseTexts, sql \in SqlQueries,
        ci \in {<< >>} \cup {[chart_info |-> c] :
                                c \in {None} \cup {Some(i) : i \in ChartInfos}},
        d \in {<< >>} \cup {[data |-> c] :
                                c \in {None} \cup {Some(df) : df \in Tables}}}

(***************************************************************************)
(* Session state and the page.                                             *)
(***************************************************************************)
SessionKeys == {"is_processing", "chat_history", "shared_memory", "agents"}

WelcomeMessage ==
    [role |-> "assistant",
     text |-> "Welcome to the Strava Data Assistant!"]

\* The page of a script run before handle_query has drawn anything.
BlankScreen ==
    [user_text      |-> FALSE,    \* st.markdown(user_query), line 114
     status         |-> "none",   \* state of the st.status box
     label          |-> "",       \* label of the st.status box
     sql_shown      |-> FALSE,    \* status.code(sql_query), line 129
     rows_shown     |-> FALSE,    \* "Query returned N rows", line 133
     warning        |-> FALSE,    \* st.warning called by handle_query
     assistant_text |-> FALSE,    \* st.markdown(response_text), line 187
     chart          |-> "none",   \* "none", "shown", or "error" (line 201)
     error          |-> None]     \* st.error(error_message), line 212

Init ==
    /\ keys = {}
    /\ is_processing = FALSE
    /\ chat_history = << >>
    /\ agents_built = 0
    /\ pc = "idle"
    /\ turns = 0
    /\ result = None
    /\ is_valid = None
    /\ coercion = "not_tried"
    /\ assistant_message = None
    /\ exc = "none"
    /\ raised = {}
    /\ screen = BlankScreen
    /\ replay = << >>
    /\ returned = "not_called"

(***************************************************************************)
(* create_interface, lines 27-98: session state and the history replay.    *)
(***************************************************************************)
HasChart(message) ==
    /\ "chart_data" \in DOMAIN message
    /\ "chart_info" \in DOMAIN message

\* chart_info.get("chart_type", "line")
ChartTypeOf(chart_info) ==
    IF "chart_type" \in DOMAIN chart_info THEN chart_info.chart_type ELSE "line"

\* ReplayMessage without the test of lines 60-61.
ReplayMessage_NoSkip(message, processing, display_raises) ==
    IF message.role = "assistant" /\ HasChart(message)
    THEN LET data == DataFrame(message.chart_data)
             chart_info == message.chart_info
             v == validate_chart_inputs(data, chart_info.x_column, chart_info.y_columns)
         IN IF ~v.is_valid THEN "warning"
            ELSE IF create_visualization_raises(ChartTypeOf(chart_info)) \/ display_raises
            THEN "error"
            ELSE "chart"
    ELSE "text"

\* Lines 57-97 for one message: what the replay shows for it.
\*   "text"     the text alone
\*   "skipped"  the text alone, the chart skipped because of is_processing
\*   "warning"  st.warning(error_message) after the validator rejected
\*   "chart"    the chart
\*   "error"    st.error("Error displaying visualization: ...")
ReplayMessage(message, processing, display_raises) ==
    IF processing THEN "skipped"
    ELSE IF message.role = "assistant" /\ HasChart(message)
    THEN LET data == DataFrame(message.chart_data)
             chart_info == message.chart_info
             v == validate_chart_inputs(data, chart_info.x_column, chart_info.y_columns)
         IN IF ~v.is_valid THEN "warning"
            ELSE IF create_visualization_raises(ChartTypeOf(chart_info)) \/ display_raises
            THEN "error"
            ELSE "chart"
    ELSE "text"

\* Refresh without the test of line 42: the history starts over on every run.
Refresh_ResetHistory ==
    /\ pc = "idle"
    /\ keys' = SessionKeys
    /\ is_processing' = IF "is_processing" \in keys THEN is_processing ELSE FALSE
    /\ chat_history' = <<WelcomeMessage>>
    /\ agents_built' = IF "agents" \in keys THEN agents_built ELSE agents_built + 1
    /\ \E display_raises \in BOOLEAN :
          replay' = [i \in DOMAIN chat_history' |->
                        ReplayMessage(chat_history'[i], is_processing', display_raises)]
    /\ result' = None
    /\ is_valid' = None
    /\ coercion' = "not_tried"
    /\ assistant_message' = None
    /\ exc' = "none"
    /\ raised' = {}
    /\ screen' = BlankScreen
    /\ returned' = "not_called"
    /\ pc' = "replayed"
    /\ UNCHANGED turns

\* Refresh without the test of line 53: the agents are built on every run.
Refresh_RebuildAgents ==
    /\ pc = "idle"
    /\ keys' = SessionKeys
    /\ is_processing' = IF "is_processing" \in keys THEN is_processing ELSE FALSE
    /\ chat_history' = IF "chat_history" \in keys THEN chat_history
                       ELSE <<WelcomeMessage>>
    /\ agents_built' = agents_built + 1
    /\ \E display_raises \in BOOLEAN :
          replay' = [i \in DOMAIN chat_history' |->
                        ReplayMessage(chat_history'[i], is_processing', display_raises)]
    /\ result' = None
    /\ is_valid' = None
    /\ coercion' = "not_tried"
    /\ assistant_message' = None
    /\ exc' = "none"
    /\ raised' = {}
    /\ screen' = BlankScreen
    /\ returned' = "not_called"
    /\ pc' = "replayed"
    /\ UNCHANGED turns

\* One script run up to the chat input: the missing session keys are set,
\* then the whole history is replayed.
Refresh ==
    /\ pc = "idle"
    /\ keys' = SessionKeys
    /\ is_processing' = IF "is_processing" \in keys THEN is_processing ELSE FALSE
    /\ chat_history' = IF "chat_history" \in keys THEN chat_history
                       ELSE <<WelcomeMessage>>
    /\ agents_built' = IF "agents" \in keys THEN agents_built ELSE agents_built + 1
    /\ \E display_raises \in BOOLEAN :
          replay' = [i \in DOMAIN chat_history' |->
                        ReplayMessage(chat_history'[i], is_processing', display_raises)]
    /\ result' = None
    /\ is_valid' = None
    /\ coercion' = "not_tried"
    /\ assistant_message' = None
    /\ exc' = "none"
    /\ raised' = {}
    /\ screen' = BlankScreen
    /\ returned' = "not_called"
    /\ pc' = "replayed"
    /\ UNCHANGED turns

(***************************************************************************)
(* handle_query, lines 103-218.  Every call into the framework that draws  *)
(* on the page (st.chat_message, st.markdown, st.status, st.error) either  *)
(* returns or raises; so do process_query and the chart build and display. *)
(***************************************************************************)
\* st.chat_input(...): None when nothing was submitted, else the text.
Prompts == {None, Some("")} \cup {Some(q) : q \in UserQueries}

\* Lines 105-114: the early return, else the flag, the user message and
\* its echo.  A display call of the framework may raise.
HandleQueryEnter(user_query) ==
    IF user_query = ""
    THEN /\ pc' = "idle"
         /\ returned' = "returned"
         /\ UNCHANGED <<is_processing, chat_history, turns, exc, raised, screen>>
    ELSE /\ turns < MaxTurns
         /\ turns' = turns + 1
         /\ is_processing' = TRUE
         /\ chat_history' = Append(chat_history, [role |-> "user", text |-> user_query])
         /\ \E display_raises \in BOOLEAN :
               IF display_raises
               THEN /\ exc' = "UIError"
                    /\ raised' = raised \cup {"user_echo"}
                    /\ pc' = "hq_except"
                    /\ UNCHANGED screen
               ELSE /\ screen' = [screen EXCEPT !.user_text = TRUE]
                    /\ pc' = "hq_call"
                    /\ UNCHANGED <<exc, raised>>
         /\ UNCHANGED returned

\* Lines 99-100: handle_query is called for a truthy prompt only.
ChatInput ==
    /\ pc = "replayed"
    /\ \E prompt \in Prompts :
          IF prompt = None \/ prompt = Some("")
          THEN /\ pc' = "idle"
               /\ UNCHANGED <<is_processing, chat_history, turns, exc, raised,
                              screen, returned>>
          ELSE HandleQueryEnter(prompt[1])
    /\ UNCHANGED <<keys, agents_built, result, is_valid, coercion,
                   assistant_message, replay>>

\* Lines 118-121: the status box opens and process_query returns a result
\* or raises.
CallPipeline ==
    /\ pc = "hq_call"
    /\ screen' = [screen EXCEPT !.status = "running",
                                !.label = "Processing your query..."]
    /\ \/ \E r \in PipelineResults :
             /\ result' = Some(r)
             /\ pc' = "hq_status"
             /\ UNCHANGED <<exc, raised>>
       \/ /\ exc' = "PipelineError"
          /\ raised' = raised \cup {"process_query"}
          /\ pc' = "hq_except"
          /\ UNCHANGED result
    /\ UNCHANGED <<keys, is_processing, chat_history, agents_built, turns,
                   is_valid, coercion, assistant_message, replay, returned>>

\* result.get(key): the value, None for a missing key.
DictGetOrNone(r, key) == IF key \in DOMAIN r THEN r[key] ELSE None

\* Lines 123-146: what the status box shows for result r.
StatusOf(r, box) ==
    IF IsDataQuery(r.classification.query_type)
    THEN LET withSql == [box EXCEPT !.sql_shown = Truthy(DictGetOrNone(r, "sql_query"))]
         IN IF r.success
            THEN [withSql EXCEPT
                     !.rows_shown = (DictGetOrNone(r, "data") # None),
                     !.status = "complete",
                     !.label = "Query processed successfully!"]
            ELSE [withSql EXCEPT !.status = "error",
                                 !.label = "Error executing query"]
    ELSE [box EXCEPT !.status = "complete", !.label = "Query processed"]

\* Lines 123-146.  A display call of the framework may raise.
ShowStatus ==
    /\ pc = "hq_status"
    /\ \E display_raises \in BOOLEAN :
          IF display_raises
          THEN /\ exc' = "UIError"
               /\ raised' = raised \cup {"status"}
               /\ pc' = "hq_except"
               /\ UNCHANGED screen
          ELSE /\ screen' = StatusOf(result[1], screen)
               /\ pc' = "hq_build"
               /\ UNCHANGED <<exc, raised>>
    /\ UNCHANGED <<keys, is_processing, chat_history, agents_built, turns, result,
                   is_valid, coercion, assistant_message, replay, returned>>

\* Lines 174-180 on the result table: the x column replaced by its
\* timestamps; a failure of pd.to_datetime is swallowed by the bare except.
CoerceTimeColumn(data, x_column) ==
    IF IsTimeLike(x_column)
    THEN LET c == to_datetime(Column(data, x_column))
         IN IF c.ok
            THEN [data |-> SetColumn(data, x_column, c.cells), coercion |-> "coerced"]
            ELSE [data |-> data, coercion |-> "failed"]
    ELSE [data |-> data, coercion |-> "not_tried"]

\* Lines 148-152.
TextMessage(r) ==
    [role |-> "assistant", text |-> r.response_text,
     sql_query |-> DictGetOrNone(r, "sql_query")]

\* AttachChart with chart_info left off the message.
AttachChart_DataOnly(message, chart_info, v, data) ==
    IF v.is_valid
    THEN message @@ [chart_data |-> to_dict_records(data)]
    ELSE message

\* AttachChart without the test of is_valid.
AttachChart_Always(message, chart_info, v, data) ==
    message @@
    [chart_data |-> to_dict_records(data),
     chart_info |-> [x_column |-> chart_info.x_column,
                     y_columns |-> v.valid_y_columns,
                     chart_type |-> ChartTypeOf(chart_info)]]

\* AttachChart storing the directive's y-columns instead of the validated ones.
AttachChart_RawY(message, chart_info, v, data) ==
    IF v.is_valid
    THEN message @@
         [chart_data |-> to_dict_records(data),
          chart_info |-> [x_column |-> chart_info.x_column,
                          y_columns |-> chart_info.y_columns,
                          chart_type |-> ChartTypeOf(chart_info)]]
    ELSE message

\* Lines 166-172: the chart fields go on the message when the validator
\* passed, with the validated y-columns and chart_info.get("chart_type", "line").
AttachChart(message, chart_info, v, data) ==
    IF v.is_valid
    THEN message @@
         [chart_data |-> to_dict_records(data),
          chart_info |-> [x_column |-> chart_info.x_column,
                          y_columns |-> v.valid_y_columns,
                          chart_type |-> ChartTypeOf(chart_info)]]
    ELSE message

\* BuildMessage without the try/except of lines 175-180: a failure of
\* pd.to_datetime leaves the block as an exception.
BuildMessage_CoercionRaises(r) ==
    LET plain == [raised |-> "none", message |-> Some(TextMessage(r)),
                  is_valid |-> None, coercion |-> "not_tried", result |-> r]
        keyError == [raised |-> "KeyError", message |-> None,
                     is_valid |-> None, coercion |-> "not_tried", result |-> r]
    IN IF "chart_info" \notin DOMAIN r THEN keyError
       ELSE IF ~Truthy(r.chart_info) THEN plain
       ELSE IF "data" \notin DOMAIN r THEN keyError
       ELSE IF r.data = None \/ Empty(r.data[1]) THEN plain
       ELSE LET chart_info == r.chart_info[1]
                data == r.data[1]
                v == validate_chart_inputs(data, chart_info.x_column,
                                           chart_info.y_columns)
                c == IF v.is_valid
                     THEN CoerceTimeColumn(data, chart_info.x_column)
                     ELSE [data |-> data, coercion |-> "not_tried"]
            IN IF c.coercion = "failed"
               THEN [raised |-> "ValueError", message |-> None,
                     is_valid |-> Some(v.is_valid), coercion |-> "failed",
                     result |-> r]
               ELSE [raised |-> "none",
                     message |-> Some(AttachChart(TextMessage(r), chart_info, v, data)),
                     is_valid |-> Some(v.is_valid),
                     coercion |-> c.coercion,
                     result |-> [r EXCEPT !.data = Some(c.data)]]

\* Lines 148-180 for result r: the message built, the validator's verdict
\* (None if it did not run), the result as the block leaves it, and the
\* exception raised, if any.  result["chart_info"] and result["data"] are
\* subscripts, so a missing key raises KeyError.
BuildMessage(r) ==
    LET plain == [raised |-> "none", message |-> Some(TextMessage(r)),
                  is_valid |-> None, coercion |-> "not_tried", result |-> r]
        keyError == [raised |-> "KeyError", message |-> None,
                     is_valid |-> None, coercion |-> "not_tried", result |-> r]
    IN IF "chart_info" \notin DOMAIN r THEN keyError
       ELSE IF ~Truthy(r.chart_info) THEN plain
       ELSE IF "data" \notin DOMAIN r THEN keyError
       ELSE IF r.data = None \/ Empty(r.data[1]) THEN plain
       ELSE LET chart_info == r.chart_info[1]
                data == r.data[1]
                v == validate_chart_inputs(data, chart_info.x_column,
                                           chart_info.y_columns)
                c == IF v.is_valid
                     THEN CoerceTimeColumn(data, chart_info.x_column)
                     ELSE [data |-> data, coercion |-> "not_tried"]
            IN [raised |-> "none",
                message |-> Some(AttachChart(TextMessage(r), chart_info, v, data)),
                is_valid |-> Some(v.is_valid),
                coercion |-> c.coercion,
                result |-> [r EXCEPT !.data = Some(c.data)]]

BuildAssistantMessage ==
    /\ pc = "hq_build"
    /\ LET b == BuildMessage(result[1])
       IN /\ assistant_message' = b.message
          /\ is_valid' = b.is_valid
          /\ coercion' = b.coercion
          /\ result' = Some(b.result)
          /\ exc' = b.raised
          /\ raised' = IF b.raised = "none" THEN raised ELSE raised \cup {"build"}
          /\ pc' = IF b.raised = "none" THEN "hq_append" ELSE "hq_except"
    /\ UNCHANGED <<keys, is_processing, chat_history, agents_built, turns,
                   screen, replay, returned>>

\* Line 182.
AppendAssistantMessage ==
    /\ pc = "hq_append"
    /\ chat_history' = Append(chat_history, assistant_message[1])
    /\ pc' = "hq_clear"
    /\ UNCHANGED <<keys, is_processing, agents_built, turns, result, is_valid,
                   coercion, assistant_message, exc, raised, screen, replay, returned>>

\* ClearProcessing without line 184: the flag is left to the finally clause.
ClearProcessing_Skip ==
    /\ pc = "hq_clear"
    /\ pc' = "hq_render"
    /\ UNCHANGED <<keys, is_processing, chat_history, agents_built, turns, result,
                   is_valid, coercion, assistant_message, exc, raised, screen, replay,
                   returned>>

\* Line 184.
ClearProcessing ==
    /\ pc = "hq_clear"
    /\ is_processing' = FALSE
    /\ pc' = "hq_render"
    /\ UNCHANGED <<keys, chat_history, agents_built, turns, result, is_valid,
                   coercion, assistant_message, exc, raised, screen, replay, returned>>

\* Lines 189-203: the chart of the new message, built from its own chart
\* fields without a second validation; an exception is shown inline.
RenderChart(message, display_raises) ==
    IF HasChart(message)
    THEN IF \/ create_visualization_raises(ChartTypeOf(message.chart_info))
            \/ display_raises
         THEN "error"
         ELSE "shown"
    ELSE "none"

\* RenderNewMessage without the inner try of lines 190-203: an exception of
\* the chart build or display reaches the outer except.
RenderNewMessage_NoInnerTry ==
    /\ pc = "hq_render"
    /\ \/ /\ exc' = "UIError"
          /\ raised' = raised \cup {"render_text"}
          /\ pc' = "hq_except"
          /\ UNCHANGED screen
       \/ \E display_raises \in BOOLEAN :
             LET chart == RenderChart(assistant_message[1], display_raises)
             IN IF chart = "error"
                THEN /\ screen' = [screen EXCEPT !.assistant_text = TRUE]
                     /\ raised' = raised \cup {"render_chart"}
                     /\ exc' = "UIError"
                     /\ pc' = "hq_except"
                ELSE /\ screen' = [screen EXCEPT !.assistant_text = TRUE,
                                                 !.chart = chart]
                     /\ pc' = "hq_finally"
                     /\ UNCHANGED <<exc, raised>>
    /\ UNCHANGED <<keys, is_processing, chat_history, agents_built, turns, result,
                   is_valid, coercion, assistant_message, replay, returned>>

\* Lines 186-203: the immediate render of the new message.  The text is
\* drawn outside the inner try, so a failure there reaches the outer except.
RenderNewMessage ==
    /\ pc = "hq_render"
    /\ \/ /\ exc' = "UIError"
          /\ raised' = raised \cup {"render_text"}
          /\ pc' = "hq_except"
          /\ UNCHANGED screen
       \/ /\ \E display_raises \in BOOLEAN :
                LET chart == RenderChart(assistant_message[1], display_raises)
                IN /\ screen' = [screen EXCEPT !.assistant_text = TRUE,
                                               !.chart = chart]
                   /\ raised' = IF chart = "error"
                                 THEN raised \cup {"render_chart"} ELSE raised
          /\ pc' = "hq_finally"
          /\ UNCHANGED exc
    /\ UNCHANGED <<keys, is_processing, chat_history, agents_built, turns, result,
                   is_valid, coercion, assistant_message, replay, returned>>

\* f"Error: {str(e)}"
ErrorText(e) == "Error: " \o e

\* ExceptHandler showing the error without appending it to the history.
ExceptHandler_NoAppend ==
    /\ pc = "hq_except"
    /\ \E display_raises \in BOOLEAN :
          IF display_raises
          THEN /\ exc' = "UIError"
               /\ raised' = raised \cup {"except_handler"}
               /\ UNCHANGED screen
          ELSE /\ exc' = "none"
               /\ screen' = [screen EXCEPT !.error = Some(ErrorText(exc))]
               /\ UNCHANGED raised
    /\ pc' = "hq_finally"
    /\ UNCHANGED <<keys, is_processing, chat_history, agents_built, turns, result,
                   is_valid, coercion, assistant_message, replay, returned>>

\* Lines 205-215: the outer boundary.  The error message is appended, then
\* shown; a display call that raises here leaves handle_query.
ExceptHandler ==
    /\ pc = "hq_except"
    /\ chat_history' = Append(chat_history,
                              [role |-> "assistant", text |-> ErrorText(exc)])
    /\ \E display_raises \in BOOLEAN :
          IF display_raises
          THEN /\ exc' = "UIError"
               /\ raised' = raised \cup {"except_handler"}
               /\ UNCHANGED screen
          ELSE /\ exc' = "none"
               /\ screen' = [screen EXCEPT !.error = Some(ErrorText(exc))]
               /\ UNCHANGED raised
    /\ pc' = "hq_finally"
    /\ UNCHANGED <<keys, is_processing, agents_built, turns, result, is_valid,
                   coercion, assistant_message, replay, returned>>

\* Finally without the finally clause.
Finally_NoClear ==
    /\ pc = "hq_finally"
    /\ returned' = IF exc = "none" THEN "returned" ELSE "raised"
    /\ pc' = "idle"
    /\ UNCHANGED <<keys, is_processing, chat_history, agents_built, turns, result,
                   is_valid, coercion, assistant_message, exc, raised, screen, replay>>

\* Lines 217-218, then the return (or the exception leaving the call).
Finally ==
    /\ pc = "hq_finally"
    /\ is_processing' = FALSE
    /\ returned' = IF exc = "none" THEN "returned" ELSE "raised"
    /\ pc' = "idle"
    /\ UNCHANGED <<keys, chat_history, agents_built, turns, result, is_valid,
                   coercion, assistant_message, exc, raised, screen, replay>>

Next ==
    \/ Refresh
    \/ ChatInput
    \/ CallPipeline
    \/ ShowStatus
    \/ BuildAssistantMessage
    \/ AppendAssistantMessage
    \/ ClearProcessing
    \/ RenderNewMessage
    \/ ExceptHandler
    \/ Finally

Spec == Init /\ [][Next]_vars

(***************************************************************************)
(* The history replay of create_interface (lines 56-97) as a function of   *)
(* the session state it reads: it is run on every history one turn can     *)
(* leave, with is_processing set either way.                               *)
(***************************************************************************)
\* The assistant messages lines 148-180 can build.
BuiltMessages ==
    {BuildMessage(r).message[1] :
        r \in {q \in PipelineResults : BuildMessage(q).raised = "none"}}

\* The messages lines 206-209 can build.
ErrorMessages ==
    {[role |-> "assistant", text |-> ErrorText(e)] :
        e \in {"PipelineError", "KeyError", "UIError"}}

ReplayHistories ==
    LET start == {<<WelcomeMessage, [role |-> "user", text |-> q]>> : q \in UserQueries}
    IN {<<WelcomeMessage>>}
       \cup {h \o <<m>> : h \in start, m \in BuiltMessages \cup ErrorMessages}
       \cup {h \o <<m, e>> : h \in start, m \in BuiltMessages, e \in ErrorMessages}

ReplayInit ==
    /\ keys = SessionKeys
    /\ is_processing \in BOOLEAN
    /\ chat_history \in ReplayHistories
    /\ agents_built = 1
    /\ pc = "idle"
    /\ turns = IF Len(chat_history) > 1 THEN 1 ELSE 0
    /\ result = None
    /\ is_valid = None
    /\ coercion = "not_tried"
    /\ assistant_message = None
    /\ exc = "none"
    /\ raised = {}
    /\ screen = BlankScreen
    /\ replay = << >>
    /\ returned = "not_called"

ReplayNext == Refresh

ReplaySpec == ReplayInit /\ [][ReplayNext]_vars

(***************************************************************************)
(* Properties.                                                             *)
(***************************************************************************)
Last(seq) == seq[Len(seq)]

\* The handle_query call of this run has ended.
CallEnded == pc = "idle" /\ returned # "not_called"

\* Line 182 has just run: the new assistant message is the last of the history.
JustAppended == pc \in {"hq_clear", "hq_render"}

\* The places whose exception reaches the outer except clause.
OuterRaiseSites == {"user_echo", "process_query", "status", "build", "render_text"}

\* The call ran its try body to the end: no exception reached the outer except.
RanThrough == pc = "hq_finally" /\ raised \cap OuterRaiseSites = {}

ChartKeys == {"chart_data", "chart_info"}

ExceptionNames == {"PipelineError", "KeyError", "UIError"}

\* A message of lines 207-209.
IsErrorMessage(message) ==
    /\ DOMAIN message = {"role", "text"}
    /\ message.role = "assistant"
    /\ \E e \in ExceptionNames : message.text = ErrorText(e)

\* C1: however one handle_query call ends (normally, after a validator
\* rejection, after an exception of the pipeline or of the render, or with an
\* exception leaving it), is_processing is false once the call has ended.
C1_CleanupOnReturn == CallEnded => is_processing = FALSE

C1_Witness ==
    /\ CallEnded
    /\ raised = {"process_query"}
    /\ is_processing = FALSE

\* C2: in every reachable state every message of chat_history has chart_data
\* if and only if it has chart_info.
C2_ChartFieldsTogether ==
    \A i \in DOMAIN chat_history :
        ("chart_data" \in DOMAIN chat_history[i])
            <=> ("chart_info" \in DOMAIN chat_history[i])

C2_Witness ==
    /\ CallEnded
    /\ \E i \in DOMAIN chat_history : HasChart(chat_history[i])
    /\ \E i \in DOMAIN chat_history : chat_history[i].role = "user"

\* C3: the new assistant message has chart fields only if the validator ran
\* on the pipeline's data and directive and returned is_valid = true, its
\* stored y_columns are then the validator's valid_y_columns, and after a
\* rejection the message has no chart field.
C3_ChartOnlyWhenValid ==
    JustAppended =>
        LET m == Last(chat_history)
            r == result[1]
        IN /\ (DOMAIN m \cap ChartKeys # {}) =>
                 /\ is_valid = Some(TRUE)
                 /\ {"chart_info", "data"} \subseteq DOMAIN r
                 /\ Truthy(r.chart_info) /\ Truthy(r.data)
                 /\ LET v == validate_chart_inputs(r.data[1],
                                                   r.chart_info[1].x_column,
                                                   r.chart_info[1].y_columns)
                    IN /\ v.is_valid
                       /\ m.chart_info.y_columns = v.valid_y_columns
           /\ is_valid = Some(FALSE) => DOMAIN m \cap ChartKeys = {}

C3_Witness ==
    /\ JustAppended
    /\ is_valid = Some(TRUE)
    /\ result[1].chart_info[1].y_columns = <<"pace", "distance">>
    /\ Last(chat_history).chart_info.y_columns = <<"distance">>

StoredChartValid(message) ==
    LET data == DataFrame(message.chart_data)
        chart_info == message.chart_info
        v == validate_chart_inputs(data, chart_info.x_column, chart_info.y_columns)
    IN /\ v.is_valid
       /\ chart_info.x_column \in Range(data.columns)
       /\ chart_info.y_columns # << >>
       /\ Range(chart_info.y_columns) \subseteq Range(data.columns)

\* C5: every assistant message of the history with chart fields passes the
\* validator on the table rebuilt from its chart_data and its own chart_info
\* (x_column a column of the records, y_columns a non-empty list of columns
\* of the records), and no history replay shows the validation warning.
C5_StoredChartRevalidates ==
    /\ \A i \in DOMAIN chat_history :
          HasChart(chat_history[i]) => StoredChartValid(chat_history[i])
    /\ \A i \in DOMAIN replay : replay[i] # "warning"

C5_Witness ==
    /\ pc = "replayed"
    /\ \E i \in DOMAIN chat_history :
          /\ HasChart(chat_history[i])
          /\ replay[i] = "chart"

\* C6: for a query type other than SQL and VIZ the new assistant message has
\* no chart field and no SQL is shown, whatever else the result holds.
C6_ConversationalTextOnly ==
    (JustAppended /\ ~IsDataQuery(result[1].classification.query_type)) =>
        /\ DOMAIN Last(chat_history) \cap ChartKeys = {}
        /\ ~screen.sql_shown

\* C7: when the validator passed for a directive whose x_column holds "date"
\* or "time" and the coercion succeeded, the chart_data of the new message
\* holds the x column as temporal values.
C7_PersistedDatesCoerced ==
    (JustAppended /\ is_valid = Some(TRUE) /\ coercion = "coerced") =>
        LET m == Last(chat_history)
        IN \A i \in DOMAIN m.chart_data :
              IsTemporal(DictGet(m.chart_data[i], m.chart_info.x_column))

\* C8: when the result has success = false the response text is shown and
\* persisted, no chart is rendered or attached and no success indicator is
\* shown.
C8_SoftFailureNoChart ==
    (RanThrough /\ ~result[1].success) =>
        /\ screen.assistant_text
        /\ Last(chat_history) = assistant_message[1]
        /\ assistant_message[1].text = result[1].response_text
        /\ DOMAIN assistant_message[1] \cap ChartKeys = {}
        /\ screen.chart = "none"
        /\ screen.label # "Query processed successfully!"

\* C9: when the result has success = false, for any classification, the
\* status box is marked as errored and the assistant text is shown.
C9_SoftFailureStatusError ==
    (RanThrough /\ ~result[1].success) =>
        /\ screen.status = "error"
        /\ screen.assistant_text

\* C10: whenever the validator rejects a directive, in handle_query as in the
\* history replay, a warning is shown and the turn or replay goes on.
C10_RejectionWarns ==
    /\ (RanThrough /\ is_valid = Some(FALSE)) =>
          /\ screen.warning
          /\ Last(chat_history) = assistant_message[1]
    /\ \A i \in DOMAIN replay :
          (/\ ~is_processing
           /\ HasChart(chat_history[i])
           /\ ~StoredChartValid(chat_history[i])) => replay[i] = "warning"


\* C11: chat_history is append-only: every step leaves it unchanged or adds
\* one message at its end, so no stored message is changed, moved or removed.
C11_AppendOnly ==
    [][\/ chat_history' = chat_history
       \/ /\ Len(chat_history') = Len(chat_history) + 1
          /\ SubSeq(chat_history', 1, Len(chat_history)) = chat_history]_vars

C11_Witness ==
    /\ pc = "replayed"
    /\ turns = 1
    /\ Len(chat_history) >= 3
    /\ chat_history[1] = WelcomeMessage
    /\ chat_history[2].role = "user"

\* C12: handle_query never changes the result process_query returned: from
\* the return to the end of the call every field keeps its value.
C12_ResultNeverMutated ==
    [][(result # None /\ pc' # "replayed") => result' = result]_vars

\* C13: the agents are built once, on the first script run, and never again
\* while they are in the session state; every turn runs with that one set.
C13_AgentsBuiltOnce ==
    /\ agents_built = (IF "agents" \in keys THEN 1 ELSE 0)
    /\ pc \notin {"idle"} => "agents" \in keys
    /\ turns > 0 => agents_built = 1

C13_Witness ==
    /\ pc = "replayed"
    /\ turns = 1
    /\ returned = "not_called"
    /\ agents_built = 1


\* C14: a history replay that runs while is_processing is true shows the
\* text of every message and neither validates nor renders any stored chart.
C14_ReplaySkipsCharts ==
    (pc = "replayed" /\ is_processing) =>
        /\ Len(replay) = Len(chat_history)
        /\ \A i \in DOMAIN replay : replay[i] = "skipped"

C14_Witness ==
    /\ pc = "replayed"
    /\ is_processing
    /\ \E i \in DOMAIN chat_history :
          /\ HasChart(chat_history[i])
          /\ replay[i] = "skipped"


C16_TurnOrder ==
    /\ pc \in {"hq_call", "hq_status", "hq_build", "hq_append"} =>
          /\ is_processing
          /\ Last(chat_history).role = "user"
    /\ pc = "hq_call" => result = None /\ assistant_message = None
    /\ pc = "hq_clear" =>
          /\ is_processing
          /\ Last(chat_history) = assistant_message[1]
          /\ chat_history[Len(chat_history) - 1].role = "user"
    /\ pc = "hq_render" =>
          /\ ~is_processing
          /\ Last(chat_history) = assistant_message[1]
          /\ ~screen.assistant_text

C16_Witness ==
    /\ pc = "hq_render"
    /\ ~is_processing
    /\ Len(chat_history) = 3
    /\ chat_history[2].role = "user"
    /\ chat_history[3] = assistant_message[1]

\* C17: a failure of the timestamp coercion is no error of the turn: the
\* message is built with chart fields holding the values the pipeline
\* returned, it is the message appended, and no exception or error message
\* comes of it.
C17_CoercionFailureIgnored ==
    coercion = "failed" =>
        /\ "build" \notin raised
        /\ assistant_message # None
        /\ HasChart(assistant_message[1])
        /\ assistant_message[1].chart_data = to_dict_records(result[1].data[1])
        /\ \A i \in DOMAIN assistant_message[1].chart_data :
              DictGet(assistant_message[1].chart_data[i],
                      assistant_message[1].chart_info.x_column) = "n/a"
        /\ JustAppended =>
              /\ Last(chat_history) = assistant_message[1]
              /\ ~IsErrorMessage(Last(chat_history))
              /\ chat_history[Len(chat_history) - 1].role = "user"

C17_Witness ==
    /\ JustAppended
    /\ coercion = "failed"
    /\ HasChart(Last(chat_history))


\* The optional chart_info or data field of result r is absent: the key is
\* missing or its value is None.
OptionalFieldAbsent(r) ==
    \/ DictGetOrNone(r, "chart_info") = None
    \/ DictGetOrNone(r, "data") = None

\* The places where a call into the framework raised.
DisplayRaiseSites == {"user_echo", "status", "render_text", "except_handler"}

\* C18: for a successful result without a chart directive or without a
\* result table, handle_query persists an assistant message with the
\* response text and no chart field; the absence makes no error message.
C18_AbsentOptionalFieldIsNoError ==
    (/\ CallEnded
     /\ result # None
     /\ raised \cap DisplayRaiseSites = {}
     /\ result[1].success
     /\ OptionalFieldAbsent(result[1])) =>
        /\ "build" \notin raised
        /\ assistant_message # None
        /\ Last(chat_history) = TextMessage(result[1])
        /\ ~IsErrorMessage(Last(chat_history))

\* The roles of the history alternate after the welcome message:
\* assistant, user, assistant, user, assistant, ...
Alternates(history) ==
    \A i \in DOMAIN history :
        history[i].role = (IF i % 2 = 1 THEN "assistant" ELSE "user")

\* C19: every handle_query call for a non-empty query, however it ends,
\* adds exactly one user message followed by exactly one assistant message,
\* so after the completed turns the history is the welcome message followed
\* by alternating user and assistant messages.
C19_OneUserOneAssistantPerTurn ==
    CallEnded =>
        /\ Len(chat_history) = 1 + 2 * turns
        /\ Alternates(chat_history)

\* C20: is_processing is false whenever a script run starts, so the replay
\* never skips: every stored chart is validated again and its render run.
C20_ReplayNeverSkips ==
    /\ pc = "idle" => ~is_processing
    /\ pc = "replayed" =>
          /\ ~is_processing
          /\ Len(replay) = Len(chat_history)
          /\ \A i \in DOMAIN replay :
                /\ replay[i] # "skipped"
                /\ HasChart(chat_history[i]) => replay[i] \in {"chart", "error"}

C20_Witness ==
    /\ pc = "replayed"
    /\ turns = 1
    /\ ~is_processing
    /\ \E i \in DOMAIN chat_history :
          /\ HasChart(chat_history[i])
          /\ replay[i] = "error"

====
